---- MODULE Spec2Model ----
(***************************************************************************)
(* Metrics aggregation engine of the Singularity tracker (src/main.py):    *)
(* the six source adapters, fetch_all_metrics (concurrent gather and the   *)
(* score formula), the read path get_current_metrics with its staleness    *)
(* test, manual_update_metrics with its alert, and the history read        *)
(* get_historical_data.                                                    *)
(*                                                                         *)
(* Python floats are modelled as fixed-point integers: a float x is the    *)
(* integer x * Scale.  The inputs drawn below are chosen so that every     *)
(* division of the score formula is exact at that resolution.              *)
(***************************************************************************)
EXTENDS Integers, Sequences, FiniteSets, TLC

\* ------------------------------------------------------------------------
\* Numbers
\* ------------------------------------------------------------------------

\* Resolution of the fixed-point image of a Float column: 1/Scale.
Scale == 6000

\* The float n.0
Fx(n) == n * Scale

\* The float n/10 (8.5 is Tenths(85))
Tenths(n) == n * (Scale \div 10)

Min(a, b) == IF a <= b THEN a ELSE b

Abs(a) == IF a < 0 THEN 0 - a ELSE a

\* ------------------------------------------------------------------------
\* Bounds of the model
\* ------------------------------------------------------------------------

\* Refresh cycles (calls of fetch_all_metrics) started in one behaviour.
MaxCycles == 2

\* Clock ticks in one behaviour.
MaxTicks == 2

\* ------------------------------------------------------------------------
\* Program constants
\* ------------------------------------------------------------------------

\* get_current_metrics: (utcnow - latest.timestamp).total_seconds() > 86400
StaleSeconds == 86400

\* manual_update_metrics: snapshot.singularity_index >= 60
AlertThreshold == 60

\* The clock advances by a second or by the staleness threshold, so that
\* ages just below, exactly at and just above the threshold all occur.
TickSteps == {1, StaleSeconds}

\* Request handlers that can be in progress at the same time.
Procs == {"p1", "p2"}

\* The six source adapters, by the key fetch_all_metrics gives each in
\* data_sources.
Adapters == {"ai_benchmarks", "research_velocity", "github_activity",
             "infrastructure", "economic", "institutional"}

\* Credentials read with os.getenv by the adapters.
Credentials == {"HUGGINGFACE_TOKEN", "GITHUB_TOKEN", "EIA_API_KEY", "NEWS_API_KEY"}

\* ------------------------------------------------------------------------
\* Answers of the external services
\*
\* One outbound call ends in one answer:
\*   st = "exc"  the call raised (connection error, timeout)
\*   st = "err"  an HTTP status other than 200
\*   st = "ok"   status 200, with a payload:
\*     body = "num"    well formed; v (and w) hold the number(s) the adapter reads
\*     body = "empty"  well formed, but without the entry the adapter looks for
\*     body = "bad"    a payload the adapter's parsing raises on
\*     body = "null"   well formed JSON whose number is null / not a number
\* ------------------------------------------------------------------------

Answer(st, body, v, w) == [st |-> st, body |-> body, v |-> v, w |-> w]

Exc == Answer("exc", "empty", 0, 0)

Err == Answer("err", "empty", 0, 0)

Ok(body, v, w) == Answer("ok", body, v, w)

\* The call itself raised (caught by the adapter's except clause).
CallRaises(r) == r.st = "exc"

\* The call raised, or the adapter's parsing of its 200 payload did.
Raises(r) == r.st = "exc" \/ (r.st = "ok" /\ r.body = "bad")

\* Status 200 with the number the adapter reads.
Live(r) == r.st = "ok" /\ r.body = "num"

\* ------------------------------------------------------------------------
\* Source adapters.  Each is the dict the coroutine returns, as a function
\* of the answers to its outbound calls and of the environment (the set of
\* credentials that are set).  An answer to a call the adapter never makes
\* (after an earlier call raised, or without the credential) is not read.
\* ------------------------------------------------------------------------

\* except-branch values of fetch_ai_benchmarks
AiDefaults ==
    [arc_agi |-> Fx(85), swe_bench |-> Fx(48),
     gpqa_diamond |-> Fx(72), frontier_math |-> Tenths(85)]

\* float(top_result['metrics'][key]) of a 200 answer with results, else the default
SotaValue(r, default) == IF Live(r) THEN Tenths(r.v) ELSE default

\* Faulty variant of fetch_ai_benchmarks: the except clause fills in only
\* the fields not obtained yet, and keeps a live arc_agi.
fetch_ai_benchmarks_keeping(arc, swe, hf, env) ==
    IF Raises(arc) THEN AiDefaults
    ELSE IF Raises(swe) \/ ("HUGGINGFACE_TOKEN" \in env /\ CallRaises(hf))
    THEN [AiDefaults EXCEPT !.arc_agi = SotaValue(arc, Fx(85))]
    ELSE [arc_agi |-> SotaValue(arc, Fx(85)),
          swe_bench |-> SotaValue(swe, Fx(48)),
          gpqa_diamond |-> Fx(72),
          frontier_math |-> Tenths(85)]

\* arc: ARC-AGI call, swe: SWE-bench call, hf: Hugging Face call (only with a token)
fetch_ai_benchmarks(arc, swe, hf, env) ==
    IF Raises(arc) \/ Raises(swe) \/ ("HUGGINGFACE_TOKEN" \in env /\ CallRaises(hf))
    THEN AiDefaults
    ELSE [arc_agi |-> SotaValue(arc, Fx(85)),
          swe_bench |-> SotaValue(swe, Fx(48)),
          gpqa_diamond |-> Fx(72),
          frontier_math |-> Tenths(85)]

\* non-200 and except-branch values of fetch_research_velocity
ResearchDefaults == [papers_per_day |-> Fx(50), total_papers_30d |-> 1500]

\* arxiv: the arXiv query; v is the number of <entry> elements of the feed
fetch_research_velocity(arxiv) ==
    IF Live(arxiv)
    THEN [papers_per_day |-> Fx(arxiv.v) \div 30, total_papers_30d |-> arxiv.v]
    ELSE ResearchDefaults

\* non-200 and except-branch values of fetch_github_activity.  The dict's
\* avg_stars_top10 and avg_forks_top10 are read by nothing and are left out.
\* is_number records whether total_ai_repos is a Python number: the adapter
\* stores data.get('total_count', 0) as it comes, without converting it.
GithubDefaults == [total_ai_repos |-> 50000, is_number |-> TRUE]

\* gh: the repository search; v is total_count
fetch_github_activity(gh, env) ==
    IF Raises(gh) \/ gh.st = "err" THEN GithubDefaults
    ELSE IF gh.body = "num" THEN [total_ai_repos |-> gh.v, is_number |-> TRUE]
    ELSE IF gh.body = "empty" THEN [total_ai_repos |-> 0, is_number |-> TRUE]
    ELSE [total_ai_repos |-> 0, is_number |-> FALSE]

\* except-branch values of fetch_infrastructure_metrics
InfraDefaults ==
    [datacenter_power_pct |-> Tenths(21), logical_qubits |-> Fx(12),
     gpu_production_index |-> Fx(75)]

\* eia: the EIA call (only with a key); its status and payload are not read
fetch_infrastructure_metrics(eia, env) ==
    IF "EIA_API_KEY" \in env /\ CallRaises(eia) THEN InfraDefaults
    ELSE [datacenter_power_pct |->
              IF "EIA_API_KEY" \in env THEN Tenths(22) ELSE Tenths(21),
          logical_qubits |-> Fx(12),
          gpu_production_index |-> Fx(78)]

\* outer except-branch values of fetch_economic_signals
EconDefaults ==
    [tech_layoffs_index |-> Fx(85), junior_role_hiring_change |-> 0 - Fx(35),
     ai_revenue_per_employee |-> Fx(165)]

\* The BLS parsing raises: a payload it cannot read, or previous = 0
\* (ZeroDivisionError).
BlsRaises(bls) == Raises(bls) \/ (Live(bls) /\ bls.w = 0)

\* ((recent - previous) / previous) * 100, recent = v and previous = w
change_pct(bls) == (Fx(bls.v - bls.w) \div bls.w) * 100

\* bls: the BLS time series call; layoffs: the layoffs.fyi call, which has a
\* try/except of its own
fetch_economic_signals(bls, layoffs) ==
    IF BlsRaises(bls) THEN EconDefaults
    ELSE [junior_role_hiring_change |->
              IF Live(bls) THEN change_pct(bls) ELSE 0 - Fx(35),
          tech_layoffs_index |-> IF layoffs.st = "ok" THEN Fx(87) ELSE Fx(85),
          ai_revenue_per_employee |-> Fx(168)]

\* except-branch values of fetch_institutional_signals
InstDefaults ==
    [executive_departures |-> Fx(7), emergency_legislation |-> Fx(2),
     vc_funding_index |-> Fx(145)]

\* news: the News API call (only with a key); congress: the Congress.gov call.
\* Neither status nor payload is read.
fetch_institutional_signals(news, congress, env) ==
    IF ("NEWS_API_KEY" \in env /\ CallRaises(news)) \/ CallRaises(congress)
    THEN InstDefaults
    ELSE [executive_departures |->
              IF "NEWS_API_KEY" \in env THEN Fx(8) ELSE Fx(7),
          emergency_legislation |-> Fx(2),
          vc_funding_index |-> Fx(148)]

\* ------------------------------------------------------------------------
\* fetch_all_metrics: the score formula.  d maps each adapter to its dict.
\* ------------------------------------------------------------------------

\* Faulty variant of research_factor: the bonus without its cap.
research_factor_uncapped(papers_per_day) == (papers_per_day \div 100) * 10

\* min((papers_per_day / 100) * 10, 10)
research_factor(papers_per_day) == Min((papers_per_day \div 100) * 10, Fx(10))

\* min(base_ai_score + research_factor, 100)
ai_score(ai, research) ==
    LET base_ai_score ==
            (ai.arc_agi + ai.swe_bench + ai.gpqa_diamond + (ai.frontier_math * 2)) \div 5
    IN  Min(base_ai_score + research_factor(research.papers_per_day), Fx(100))

infra_score(infra) ==
    (Min((infra.logical_qubits \div 100) * 100, Fx(100))
     + Min((infra.datacenter_power_pct \div 5) * 100, Fx(100))
     + infra.gpu_production_index) \div 3

econ_score(econ) ==
    (Abs(econ.junior_role_hiring_change)
     + Min((econ.ai_revenue_per_employee \div 200) * 100, Fx(100))
     + econ.tech_layoffs_index) \div 3

\* Faulty variant of github_factor: the bonus without its cap.
github_factor_uncapped(total_ai_repos) == (Fx(total_ai_repos) \div 100000) * 10

\* min((total_ai_repos / 100000) * 10, 10)
github_factor(total_ai_repos) == Min((Fx(total_ai_repos) \div 100000) * 10, Fx(10))

\* Faulty variant of inst_score: the GitHub activity bonus left out.
inst_score_no_bonus(inst, github) ==
    (Min(inst.executive_departures * 10, Fx(100))
     + Min(inst.emergency_legislation * 25, Fx(100))
     + Min((inst.vc_funding_index \div 200) * 100, Fx(100))) \div 3

inst_score(inst, github) ==
    LET base ==
            (Min(inst.executive_departures * 10, Fx(100))
             + Min(inst.emergency_legislation * 25, Fx(100))
             + Min((inst.vc_funding_index \div 200) * 100, Fx(100))) \div 3
    IN  Min(base + github_factor(github.total_ai_repos), Fx(100))

\* Faulty variant of singularity_index: weights 0.30/0.20/0.25/0.25.
singularity_index_other_weights(ai, infra, econ, inst) ==
    (ai * 30 + infra * 20 + econ * 25 + inst * 25) \div 100

\* ai_score * 0.35 + infra_score * 0.20 + econ_score * 0.25 + inst_score * 0.20
singularity_index(ai, infra, econ, inst) ==
    (ai * 35 + infra * 20 + econ * 25 + inst * 20) \div 100

\* The data_sources literal of the snapshot: the same for every cycle.
data_sources ==
    [a \in Adapters |->
        CASE a = "ai_benchmarks" -> "papers_with_code"
          [] a = "research_velocity" -> "arxiv"
          [] a = "github_activity" -> "github_api"
          [] a = "infrastructure" -> "eia"
          [] a = "economic" -> "bls"
          [] a = "institutional" -> "news_api"]

\* The arithmetic on github_data['total_ai_repos'] raises TypeError when the
\* adapter handed over a value that is not a number.
FetchAllRaises(d) == ~ d["github_activity"].is_number

\* int(x) of a float
ToInt(x) == (x \div Scale) * Scale

\* The MetricsSnapshot fetch_all_metrics returns; id and timestamp are set
\* when the row is inserted.
MakeSnapshot(d) ==
    LET ai    == d["ai_benchmarks"]
        infra == d["infrastructure"]
        econ  == d["economic"]
        inst  == d["institutional"]
        a == ai_score(ai, d["research_velocity"])
        i == infra_score(infra)
        e == econ_score(econ)
        n == inst_score(inst, d["github_activity"])
    IN  [id |-> 0, timestamp |-> 0,
         arc_agi_score |-> ai.arc_agi,
         swe_bench_score |-> ai.swe_bench,
         gpqa_diamond_score |-> ai.gpqa_diamond,
         frontier_math_score |-> ai.frontier_math,
         logical_qubits |-> ToInt(infra.logical_qubits),
         datacenter_power_pct |-> infra.datacenter_power_pct,
         gpu_production_index |-> infra.gpu_production_index,
         junior_role_hiring_change |-> econ.junior_role_hiring_change,
         ai_revenue_per_employee |-> econ.ai_revenue_per_employee,
         tech_layoffs_index |-> econ.tech_layoffs_index,
         executive_departures |-> inst.executive_departures,
         emergency_legislation |-> inst.emergency_legislation,
         vc_funding_index |-> inst.vc_funding_index,
         ai_score |-> a,
         infrastructure_score |-> i,
         economic_score |-> e,
         institutional_score |-> n,
         singularity_index |-> singularity_index(a, i, e, n),
         data_sources |-> data_sources]

\* Faulty variant of Phase: each edge counted to the band below it.
PhaseClosedAbove(index) ==
    IF index <= Fx(20) THEN "Pre-Acceleration"
    ELSE IF index <= Fx(40) THEN "Early Acceleration"
    ELSE IF index <= Fx(60) THEN "Rapid Capability Gain"
    ELSE IF index <= Fx(80) THEN "Pre-AGI Threshold"
    ELSE "Singularity Zone"

\* get_current_metrics: the phase of an index
Phase(index) ==
    IF index < Fx(20) THEN "Pre-Acceleration"
    ELSE IF index < Fx(40) THEN "Early Acceleration"
    ELSE IF index < Fx(60) THEN "Rapid Capability Gain"
    ELSE IF index < Fx(80) THEN "Pre-AGI Threshold"
    ELSE "Singularity Zone"

\* ------------------------------------------------------------------------
\* State
\* ------------------------------------------------------------------------

VARIABLES
    now,        \* datetime.utcnow(), in seconds
    env,        \* the credentials that are set (os.getenv)
    services,   \* what the external services answer at present, per call
    db,         \* the metrics_snapshots table, in insertion order
    pc,         \* per handler: "idle", or "gather" while awaiting asyncio.gather
    handler,    \* per handler: the endpoint it runs
    latest,     \* per handler: id of the row its query found (0: none)
    results,    \* per handler: the dicts of the adapters that have returned
    fellBack,   \* per handler: the adapters that substituted a default this cycle
    check,      \* what the last staleness test saw and decided
    response,   \* the last response sent
    tasks,      \* background tasks added and not yet run
    alerts,     \* send_alert_emails runs so far
    cycles,     \* fetch_all_metrics calls started so far
    ticks,      \* clock steps so far
    provenance  \* per persisted snapshot (by position in db): the dicts
                \* of the cycle that produced it, and the adapters that
                \* substituted a default in it

vars == <<now, env, services, db, pc, handler, latest, results, fellBack, check,
          response, tasks, alerts, cycles, ticks, provenance>>

NoResults == [a \in {} |-> 0]

NoCheck == [had_latest |-> FALSE, age |-> 0, refresh |-> FALSE]

NoResponse == [kind |-> "none"]

\* An unhandled exception of the handler: FastAPI answers 500.
ServerError == [kind |-> "error"]

\* db.commit() raised: also not caught, FastAPI answers 500.
CommitError == [kind |-> "error", cause |-> "commit"]

\* MetricsResponse(...) of get_current_metrics; its metrics and data_sources
\* are fields of the snapshot.
MetricsResponse(snapshot) ==
    [kind |-> "metrics", snapshot |-> snapshot,
     phase |-> Phase(snapshot.singularity_index)]

\* What is kept of a cycle beside the row it inserted.
CycleRecord(dicts, substituted) == [dicts |-> dicts, substituted |-> substituted]

\* {'status': 'updated', 'index': ...} of manual_update_metrics
UpdatedResponse(snapshot) ==
    [kind |-> "updated", index |-> snapshot.singularity_index]

\* Every external service unreachable.
Unreachable ==
    [arc |-> Exc, swe |-> Exc, hf |-> Exc, arxiv |-> Exc, gh |-> Exc,
     eia |-> Exc, bls |-> Exc, layoffs |-> Exc, news |-> Exc, congress |-> Exc]

InitWith(envs) ==
    /\ now = 0
    /\ env \in envs
    /\ services = Unreachable
    /\ db = <<>>
    /\ pc = [p \in Procs |-> "idle"]
    /\ handler = [p \in Procs |-> "none"]
    /\ latest = [p \in Procs |-> 0]
    /\ results = [p \in Procs |-> NoResults]
    /\ fellBack = [p \in Procs |-> {}]
    /\ check = NoCheck
    /\ response = NoResponse
    /\ tasks = <<>>
    /\ alerts = <<>>
    /\ cycles = 0
    /\ ticks = 0
    /\ provenance = <<>>

\* Faulty variant of LatestRows: the rows of the least timestamp.
OldestRows ==
    {db[i] : i \in {j \in DOMAIN db :
                      \A k \in DOMAIN db : db[j].timestamp <= db[k].timestamp}}

\* The rows db.query(MetricsSnapshot).order_by(timestamp.desc()).first() can
\* return: a row of the greatest timestamp (any of them, on a tie).
LatestRows ==
    {db[i] : i \in {j \in DOMAIN db :
                      \A k \in DOMAIN db : db[k].timestamp <= db[j].timestamp}}

\* The row as inserted by db.add + db.commit: the next id, timestamp utcnow.
Inserted(snapshot) ==
    [snapshot EXCEPT !.id = Len(db) + 1, !.timestamp = now]

\* Faulty variant of RolledBack: the pending row kept in the table.
KeptPending(rows, snapshot) == Append(rows, snapshot)

\* The table after db.add(snapshot) and a db.commit() that raised: the
\* handler's session is closed by get_db (finally: db.close()), which rolls
\* the transaction back and drops the pending row.
RolledBack(rows, snapshot) == rows

\* ------------------------------------------------------------------------
\* Clock
\* ------------------------------------------------------------------------

Tick(d) ==
    /\ ticks < MaxTicks
    /\ ticks' = ticks + 1
    /\ now' = now + d
    /\ UNCHANGED <<env, services, db, pc, handler, latest, results, fellBack, check,
                   response, tasks, alerts, cycles, provenance>>

\* ------------------------------------------------------------------------
\* fetch_all_metrics: asyncio.gather starts the six adapters and suspends
\* the handler until all six have returned.
\*
\* ans holds the answer to each of the ten outbound calls of one cycle.
\* ------------------------------------------------------------------------

\* The dict adapter a returns.
Dict(a, ans, e) ==
    CASE a = "ai_benchmarks" -> fetch_ai_benchmarks(ans.arc, ans.swe, ans.hf, e)
      [] a = "research_velocity" -> fetch_research_velocity(ans.arxiv)
      [] a = "github_activity" -> fetch_github_activity(ans.gh, e)
      [] a = "infrastructure" -> fetch_infrastructure_metrics(ans.eia, e)
      [] a = "economic" -> fetch_economic_signals(ans.bls, ans.layoffs)
      [] a = "institutional" ->
            fetch_institutional_signals(ans.news, ans.congress, e)

\* Adapter a put a hard-coded default where the value of a successful call
\* belongs: its except branch ran, a call answered other than 200 with the
\* entry looked for, or the credential of its call is missing.
Substituted(a, ans, e) ==
    CASE a = "ai_benchmarks" ->
            \/ ~ Live(ans.arc)
            \/ ~ Live(ans.swe)
            \/ ("HUGGINGFACE_TOKEN" \in e /\ CallRaises(ans.hf))
      [] a = "research_velocity" -> ~ Live(ans.arxiv)
      [] a = "github_activity" ->
            ~ (ans.gh.st = "ok" /\ ans.gh.body \in {"num", "null"})
      [] a = "infrastructure" -> "EIA_API_KEY" \notin e \/ CallRaises(ans.eia)
      [] a = "economic" ->
            BlsRaises(ans.bls) \/ ~ Live(ans.bls) \/ ~ (ans.layoffs.st = "ok")
      [] a = "institutional" ->
            \/ "NEWS_API_KEY" \notin e
            \/ CallRaises(ans.news)
            \/ CallRaises(ans.congress)

StartCycle(p, h) ==
    /\ cycles < MaxCycles
    /\ cycles' = cycles + 1
    /\ pc' = [pc EXCEPT ![p] = "gather"]
    /\ handler' = [handler EXCEPT ![p] = h]
    /\ results' = [results EXCEPT ![p] = NoResults]
    /\ fellBack' = [fellBack EXCEPT ![p] = {}]

\* Adapter a of handler p returns.
Settle(p, a, ans) ==
    /\ pc[p] = "gather"
    /\ a \notin DOMAIN results[p]
    /\ results' = [results EXCEPT ![p] = @ @@ (a :> Dict(a, ans, env))]
    /\ fellBack' = [fellBack EXCEPT ![p] =
                      IF Substituted(a, ans, env) THEN @ \cup {a} ELSE @]
    /\ UNCHANGED <<now, env, services, db, pc, handler, latest, check, response, tasks,
                   alerts, cycles, ticks, provenance>>

\* The six adapters of handler p return, taken as one step: an adapter
\* writes only its own dict, so the order in which the six return is seen
\* by nothing outside the cycle.
Gather(p, ans) ==
    /\ pc[p] = "gather"
    /\ results[p] = NoResults
    /\ results' = [results EXCEPT ![p] = [a \in Adapters |-> Dict(a, ans, env)]]
    /\ fellBack' = [fellBack EXCEPT ![p] =
                      {a \in Adapters : Substituted(a, ans, env)}]
    /\ UNCHANGED <<now, env, services, db, pc, handler, latest, check, response, tasks,
                   alerts, cycles, ticks, provenance>>

\* Faulty variant of Collected: the dicts returned so far, with the values
\* of unreachable services in place of those still awaited.
CollectedEarly(p) ==
    [a \in Adapters |->
        IF a \in DOMAIN results[p] THEN results[p][a]
        ELSE Dict(a, Unreachable, env)]

\* What await asyncio.gather(...) hands to the score calculation of handler
\* p: the dicts of the adapters; the handler resumes when all six are there.
Collected(p) == results[p]

\* The handler's frame is gone once it has responded.
EndHandler(p) ==
    /\ pc' = [pc EXCEPT ![p] = "idle"]
    /\ handler' = [handler EXCEPT ![p] = "none"]
    /\ latest' = [latest EXCEPT ![p] = 0]
    /\ results' = [results EXCEPT ![p] = NoResults]
    /\ fellBack' = [fellBack EXCEPT ![p] = {}]

\* ------------------------------------------------------------------------
\* get_current_metrics
\* ------------------------------------------------------------------------

\* Faulty variant of IsStale: stale only after twice the threshold.
IsStaleTwice(row) == now - row.timestamp > 2 * StaleSeconds

\* (datetime.utcnow() - latest.timestamp).total_seconds() > 86400
IsStale(row) == now - row.timestamp > StaleSeconds

\* The handler up to its first suspension: the query for the latest row and
\* the staleness test; then either the call of fetch_all_metrics, or the
\* whole response from the row found.
GetCurrentMetrics(p) ==
    /\ pc[p] = "idle"
    /\ \/ /\ db = <<>>
          /\ StartCycle(p, "get_current_metrics")
          /\ latest' = [latest EXCEPT ![p] = 0]
          /\ check' = NoCheck
          /\ UNCHANGED response
       \/ \E row \in LatestRows :
            /\ IsStale(row)
            /\ StartCycle(p, "get_current_metrics")
            /\ latest' = [latest EXCEPT ![p] = row.id]
            /\ check' = [had_latest |-> TRUE, age |-> now - row.timestamp,
                         refresh |-> TRUE]
            /\ UNCHANGED response
       \/ \E row \in LatestRows :
            /\ ~ IsStale(row)
            /\ check' = [had_latest |-> TRUE, age |-> now - row.timestamp,
                         refresh |-> FALSE]
            /\ response' = MetricsResponse(row)
            /\ UNCHANGED <<pc, handler, latest, results, fellBack, cycles>>
    /\ UNCHANGED <<now, env, services, db, tasks, alerts, ticks, provenance>>

\* The handler from the return of asyncio.gather to its response: the scores,
\* db.add, db.commit, db.refresh, the phase.  Nothing here suspends.  An
\* exception of the score arithmetic or of the commit is not caught.
ResumeGetCurrentMetrics(p, commit_ok) ==
    /\ pc[p] = "gather"
    /\ handler[p] = "get_current_metrics"
    /\ DOMAIN Collected(p) = Adapters
    /\ EndHandler(p)
    /\ IF FetchAllRaises(Collected(p))
       THEN /\ response' = ServerError
            /\ UNCHANGED <<db, provenance>>
       ELSE LET snapshot == Inserted(MakeSnapshot(Collected(p)))
            IN  IF commit_ok
                THEN /\ db' = Append(db, snapshot)
                     /\ provenance' =
                           Append(provenance, CycleRecord(Collected(p), fellBack[p]))
                     /\ response' = MetricsResponse(snapshot)
                ELSE /\ db' = RolledBack(db, snapshot)
                     /\ response' = CommitError
                     /\ UNCHANGED provenance
    /\ UNCHANGED <<now, env, services, check, tasks, alerts, cycles, ticks>>

\* ------------------------------------------------------------------------
\* manual_update_metrics and send_alert_emails
\* ------------------------------------------------------------------------

\* Faulty variant of AlertTasks: the alert task added twice.
AlertTasksTwice(snapshot) ==
    IF snapshot.singularity_index >= Fx(AlertThreshold)
    THEN <<[index |-> snapshot.singularity_index, snapshot_id |-> snapshot.id],
           [index |-> snapshot.singularity_index, snapshot_id |-> snapshot.id]>>
    ELSE <<>>

\* The background tasks manual_update_metrics adds for its new snapshot.
AlertTasks(snapshot) ==
    IF snapshot.singularity_index >= Fx(AlertThreshold)
    THEN <<[index |-> snapshot.singularity_index, snapshot_id |-> snapshot.id]>>
    ELSE <<>>

ManualUpdateMetrics(p) ==
    /\ pc[p] = "idle"
    /\ StartCycle(p, "manual_update_metrics")
    /\ UNCHANGED <<latest, now, env, services, db, check, response, tasks, alerts, ticks,
                   provenance>>

ResumeManualUpdateMetrics(p, commit_ok) ==
    /\ pc[p] = "gather"
    /\ handler[p] = "manual_update_metrics"
    /\ DOMAIN Collected(p) = Adapters
    /\ EndHandler(p)
    /\ IF FetchAllRaises(Collected(p))
       THEN /\ response' = ServerError
            /\ UNCHANGED <<db, provenance, tasks>>
       ELSE LET snapshot == Inserted(MakeSnapshot(Collected(p)))
            IN  IF commit_ok
                THEN /\ db' = Append(db, snapshot)
                     /\ provenance' =
                           Append(provenance, CycleRecord(Collected(p), fellBack[p]))
                     /\ tasks' = tasks \o AlertTasks(snapshot)
                     /\ response' = UpdatedResponse(snapshot)
                ELSE /\ db' = RolledBack(db, snapshot)
                     /\ response' = CommitError
                     /\ UNCHANGED <<provenance, tasks>>
    /\ UNCHANGED <<now, env, services, check, alerts, cycles, ticks>>

\* A background task runs after its response was sent: send_alert_emails(index).
SendAlertEmails ==
    /\ tasks # <<>>
    /\ alerts' = Append(alerts, Head(tasks))
    /\ tasks' = Tail(tasks)
    /\ UNCHANGED <<now, env, services, db, pc, handler, latest, results, fellBack, check,
                   response, cycles, ticks, provenance>>

\* ------------------------------------------------------------------------
\* get_historical_data.  The handler awaits nothing: it runs in one step.
\* ------------------------------------------------------------------------

\* timedelta(days=1).total_seconds()
DaySeconds == 86400

\* The days parameter of the requests: the window is empty of age, or a day.
HistoryDays == {0, 1}

\* HTTPException(status_code=403): the token is not of a Pro user.
Forbidden == [kind |-> "forbidden"]

\* Faulty variant of InWindow: the cutoff itself left out.
InWindowStrict(row, days) == row.timestamp > now - days * DaySeconds

\* MetricsSnapshot.timestamp >= cutoff, cutoff = utcnow() - timedelta(days=days)
InWindow(row, days) == row.timestamp >= now - days * DaySeconds

\* The results .filter(...).order_by(MetricsSnapshot.timestamp).all() can
\* return: the rows of the window by ascending timestamp, rows of equal
\* timestamps in any order.  Each result is a sequence of positions in db.
HistoryQuery(days) ==
    LET sel == {i \in DOMAIN db : InWindow(db[i], days)}
    IN  {f \in [1..Cardinality(sel) -> sel] :
            /\ \A k, l \in DOMAIN f : k # l => f[k] # f[l]
            /\ \A k, l \in DOMAIN f :
                  k < l => db[f[k]].timestamp <= db[f[l]].timestamp}

\* What HistoricalData carries of one snapshot: the k-th entry of its five
\* lists (isoformat() of a timestamp is kept as the timestamp).
HistoryEntry(s) ==
    [timestamp |-> s.timestamp, index |-> s.singularity_index,
     ai_score |-> s.ai_score, infrastructure_score |-> s.infrastructure_score,
     economic_score |-> s.economic_score]

\* HistoricalData(...) of the rows at positions f, with the days of the
\* request it answers.
HistoricalData(days, f) ==
    [kind |-> "history", days |-> days,
     entries |-> [k \in DOMAIN f |-> HistoryEntry(db[f[k]])]]

GetHistoricalData(days, is_pro) ==
    /\ IF is_pro
       THEN \E f \in HistoryQuery(days) : response' = HistoricalData(days, f)
       ELSE response' = Forbidden
    /\ UNCHANGED <<now, env, services, db, pc, handler, latest, results, fellBack, check,
                   tasks, alerts, cycles, ticks, provenance>>

\* ------------------------------------------------------------------------
\* Specification of the service: two handlers in progress at a time, a
\* clock, and external services that are either unreachable or answer with
\* one of a few payloads.  The six adapters of a cycle return in one step.
\* ------------------------------------------------------------------------

\* Deployments: no credential set, or all of them.
Envs == {{}, Credentials}

\* BLS answers: unreachable, or employment going from 1 to 5 (+400 %).
BlsAnswers == {Exc, Ok("num", 5, 1)}

\* GitHub answers: unreachable, or 200 with "total_count": null.
GithubAnswers == {Exc, Ok("null", 0, 0)}

Init == InitWith(Envs)

Next ==
    \/ \E d \in TickSteps : Tick(d)
    \/ \E p \in Procs : GetCurrentMetrics(p)
    \/ \E p \in Procs : ManualUpdateMetrics(p)
    \/ \E p \in Procs, gh \in GithubAnswers, bls \in BlsAnswers :
          Gather(p, [Unreachable EXCEPT !.gh = gh, !.bls = bls])
    \/ \E p \in Procs, commit_ok \in BOOLEAN : ResumeGetCurrentMetrics(p, commit_ok)
    \/ \E p \in Procs, commit_ok \in BOOLEAN : ResumeManualUpdateMetrics(p, commit_ok)
    \/ SendAlertEmails

Spec == Init /\ [][Next]_vars

\* ------------------------------------------------------------------------
\* Specification of the history reads: one handler that refreshes or
\* updates at a time, the clock, and get_historical_data between any two
\* of their steps.
\* ------------------------------------------------------------------------

HistNext ==
    \/ \E d \in TickSteps : Tick(d)
    \/ GetCurrentMetrics("p1")
    \/ ManualUpdateMetrics("p1")
    \/ \E bls \in BlsAnswers : Gather("p1", [Unreachable EXCEPT !.bls = bls])
    \/ \E commit_ok \in BOOLEAN : ResumeGetCurrentMetrics("p1", commit_ok)
    \/ \E commit_ok \in BOOLEAN : ResumeManualUpdateMetrics("p1", commit_ok)
    \/ SendAlertEmails
    \/ \E days \in HistoryDays, is_pro \in BOOLEAN : GetHistoricalData(days, is_pro)

SpecHist == Init /\ [][HistNext]_vars

\* ------------------------------------------------------------------------
\* Specification of one refresh cycle: one handler, one call of
\* fetch_all_metrics, adapters that return one by one in any order, and
\* external services that answer with errors, unreadable payloads and
\* values below, inside and above the nominal scale.
\* ------------------------------------------------------------------------

\* Accuracy of the ARC-AGI leader, in tenths: -20.0, 90.0, 150.0
ArcAnswers ==
    {Exc, Err, Ok("empty", 0, 0), Ok("bad", 0, 0),
     Ok("num", 0 - 200, 0), Ok("num", 900, 0), Ok("num", 1500, 0)}

\* Resolved of the SWE-bench leader, in tenths: 60.0
SweAnswers == {Exc, Err, Ok("num", 600, 0)}

\* Calls of which only the outcome is read.
StatusAnswers == {Exc, Err, Ok("empty", 0, 0)}

\* Entries of the arXiv feed: 0, 3000 (100 a day), 6000 (200 a day)
ArxivAnswers ==
    {Exc, Err, Ok("bad", 0, 0), Ok("num", 0, 0), Ok("num", 3000, 0),
     Ok("num", 6000, 0)}

\* total_count of the repository search
GithubCalcAnswers ==
    {Exc, Err, Ok("bad", 0, 0), Ok("empty", 0, 0), Ok("null", 0, 0),
     Ok("num", 100000, 0), Ok("num", 200000, 0)}

\* Employment (recent, previous): +1 %, +1000 %, -50 %, and previous = 0
BlsCalcAnswers ==
    {Exc, Err, Ok("empty", 0, 0), Ok("bad", 0, 0), Ok("num", 101, 100),
     Ok("num", 11, 1), Ok("num", 50, 100), Ok("num", 1, 0)}

\* Deployments: each credential is set in one and missing in another.
CalcEnvs ==
    {{}, {"EIA_API_KEY", "GITHUB_TOKEN"}, {"HUGGINGFACE_TOKEN", "NEWS_API_KEY"},
     Credentials}

CalcInit == InitWith(CalcEnvs)

CalcNext ==
    \/ cycles = 0 /\ GetCurrentMetrics("p1")
    \/ cycles = 0 /\ ManualUpdateMetrics("p1")
    \/ \E arc \in ArcAnswers, swe \in SweAnswers, hf \in StatusAnswers :
          Settle("p1", "ai_benchmarks",
                 [Unreachable EXCEPT !.arc = arc, !.swe = swe, !.hf = hf])
    \/ \E arxiv \in ArxivAnswers :
          Settle("p1", "research_velocity", [Unreachable EXCEPT !.arxiv = arxiv])
    \/ \E gh \in GithubCalcAnswers :
          Settle("p1", "github_activity", [Unreachable EXCEPT !.gh = gh])
    \/ \E eia \in StatusAnswers :
          Settle("p1", "infrastructure", [Unreachable EXCEPT !.eia = eia])
    \/ \E bls \in BlsCalcAnswers, layoffs \in StatusAnswers :
          Settle("p1", "economic",
                 [Unreachable EXCEPT !.bls = bls, !.layoffs = layoffs])
    \/ \E news \in StatusAnswers, congress \in StatusAnswers :
          Settle("p1", "institutional",
                 [Unreachable EXCEPT !.news = news, !.congress = congress])
    \/ \E commit_ok \in BOOLEAN : ResumeGetCurrentMetrics("p1", commit_ok)
    \/ \E commit_ok \in BOOLEAN : ResumeManualUpdateMetrics("p1", commit_ok)
    \/ SendAlertEmails

SpecCalc == CalcInit /\ [][CalcNext]_vars

\* ------------------------------------------------------------------------
\* Specification of the phase label: the table holds one snapshot of an
\* earlier refresh, its index anywhere on, between and beyond the band
\* edges, and get_current_metrics serves it while it is fresh.
\* ------------------------------------------------------------------------

\* Band edges and the ends of the nominal scale.
PhaseEdges == {0, 20, 40, 60, 80, 100}

\* Indices: each edge, the values next to it on either side, values inside
\* every band, below 0 and far above 100.
PhaseIndices ==
    {Fx(e) + d : e \in PhaseEdges, d \in {0 - 1, 0, 1}}
    \cup {Fx(x) : x \in {0 - 50, 10, 30, 50, 70, 90, 136, 5000}}

\* A stored row of the given index: the sub-scores all equal to it (the
\* weights add up to 1), the raw fields those of an all-default cycle.
StoredSnapshot(index) ==
    [MakeSnapshot([a \in Adapters |-> Dict(a, Unreachable, {})]) EXCEPT
        !.id = 1, !.timestamp = 0,
        !.ai_score = index, !.infrastructure_score = index,
        !.economic_score = index, !.institutional_score = index,
        !.singularity_index = index]

PhaseInit ==
    /\ now = 0
    /\ env \in Envs
    /\ services = Unreachable
    /\ \E index \in PhaseIndices : db = <<StoredSnapshot(index)>>
    /\ provenance =
          <<CycleRecord([a \in Adapters |-> Dict(a, Unreachable, {})], Adapters)>>
    /\ pc = [p \in Procs |-> "idle"]
    /\ handler = [p \in Procs |-> "none"]
    /\ latest = [p \in Procs |-> 0]
    /\ results = [p \in Procs |-> NoResults]
    /\ fellBack = [p \in Procs |-> {}]
    /\ check = NoCheck
    /\ response = NoResponse
    /\ tasks = <<>>
    /\ alerts = <<>>
    /\ cycles = 0
    /\ ticks = 0

PhaseNext ==
    \/ Tick(1)
    \/ GetCurrentMetrics("p1")

SpecPhase == PhaseInit /\ [][PhaseNext]_vars

\* ------------------------------------------------------------------------
\* Specification of the duration of a cycle: one handler, one call of
\* fetch_all_metrics starting at time 0, every outbound call taking its
\* time, and the clock at the return of asyncio.gather.
\* ------------------------------------------------------------------------

\* httpx.AsyncClient(timeout=30.0): a call not answered after 30 time units
\* raises.
RequestTimeout == 30

\* A call with the time it takes: it times out, or answers at once, or
\* answers just before the timeout.
TimedCalls(live) ==
    {[ans |-> Exc, time |-> RequestTimeout],
     [ans |-> live, time |-> 1],
     [ans |-> live, time |-> RequestTimeout - 1]}

\* The calls of an adapter that makes one call only: timed out or at once.
SingleCalls(live) ==
    {[ans |-> Exc, time |-> RequestTimeout], [ans |-> live, time |-> 1]}

\* The ten calls of one cycle.
TimedCycles ==
    [arc : TimedCalls(Ok("num", 900, 0)), swe : TimedCalls(Ok("num", 600, 0)),
     hf : TimedCalls(Ok("empty", 0, 0)),
     arxiv : SingleCalls(Ok("num", 3000, 0)),
     gh : SingleCalls(Ok("num", 100000, 0)),
     eia : SingleCalls(Ok("empty", 0, 0)),
     bls : TimedCalls(Ok("num", 101, 100)), layoffs : TimedCalls(Ok("empty", 0, 0)),
     news : TimedCalls(Ok("empty", 0, 0)), congress : TimedCalls(Ok("empty", 0, 0))]

\* The time adapter a takes: it awaits its calls one after the other and
\* makes no further call once one has raised into its except clause.
AdapterTime(a, ans, dur, e) ==
    CASE a = "ai_benchmarks" ->
            dur.arc
            + (IF Raises(ans.arc) THEN 0
               ELSE dur.swe
                    + (IF Raises(ans.swe) \/ "HUGGINGFACE_TOKEN" \notin e THEN 0
                       ELSE dur.hf))
      [] a = "research_velocity" -> dur.arxiv
      [] a = "github_activity" -> dur.gh
      [] a = "infrastructure" -> IF "EIA_API_KEY" \in e THEN dur.eia ELSE 0
      [] a = "economic" ->
            dur.bls + (IF BlsRaises(ans.bls) THEN 0 ELSE dur.layoffs)
      [] a = "institutional" ->
            IF "NEWS_API_KEY" \in e
            THEN dur.news + (IF CallRaises(ans.news) THEN 0 ELSE dur.congress)
            ELSE dur.congress

\* asyncio.gather runs the six adapters concurrently: it returns when the
\* slowest has returned.
CycleTime(ans, dur, e) ==
    LET times == {AdapterTime(a, ans, dur, e) : a \in Adapters}
    IN  CHOOSE t \in times : \A u \in times : u <= t

\* The six adapters of handler p return, and the time the cycle took has
\* passed.
TimedGather(p, calls) ==
    LET ans == [c \in DOMAIN calls |-> calls[c].ans]
        dur == [c \in DOMAIN calls |-> calls[c].time]
    IN  /\ pc[p] = "gather"
        /\ results[p] = NoResults
        /\ results' = [results EXCEPT ![p] = [a \in Adapters |-> Dict(a, ans, env)]]
        /\ fellBack' = [fellBack EXCEPT ![p] =
                          {a \in Adapters : Substituted(a, ans, env)}]
        /\ now' = now + CycleTime(ans, dur, env)
        /\ UNCHANGED <<env, services, db, pc, handler, latest, check, response,
                       tasks, alerts, cycles, ticks, provenance>>

TimeNext ==
    \/ cycles = 0 /\ GetCurrentMetrics("p1")
    \/ \E calls \in TimedCycles : TimedGather("p1", calls)
    \/ \E commit_ok \in BOOLEAN : ResumeGetCurrentMetrics("p1", commit_ok)

SpecTime == Init /\ [][TimeNext]_vars

\* ------------------------------------------------------------------------
\* Specification of the adapters' outcomes: the external services answer
\* each call in one of the ways below, the same way throughout, and one
\* cycle runs against them.
\* ------------------------------------------------------------------------

\* A call that yields a number: it raises, answers a non-200 status, a 200
\* payload the parsing raises on, or the number.
NumberAnswers(v) == {Exc, Err, Ok("bad", 0, 0), Ok("num", v, 0)}

\* What the services answer: ARC-AGI 90.0, SWE-bench 60.0, 3000 arXiv
\* entries, 100000 repositories; BLS and layoffs.fyi are unreachable.
ServiceAnswers ==
    [arc : NumberAnswers(900), swe : NumberAnswers(600), hf : StatusAnswers,
     arxiv : NumberAnswers(3000), gh : NumberAnswers(100000),
     eia : StatusAnswers, bls : {Exc}, layoffs : {Exc},
     news : StatusAnswers, congress : StatusAnswers]

AdaptersInit ==
    /\ now = 0
    /\ env \in Envs
    /\ services \in ServiceAnswers
    /\ db = <<>>
    /\ pc = [p \in Procs |-> "idle"]
    /\ handler = [p \in Procs |-> "none"]
    /\ latest = [p \in Procs |-> 0]
    /\ results = [p \in Procs |-> NoResults]
    /\ fellBack = [p \in Procs |-> {}]
    /\ check = NoCheck
    /\ response = NoResponse
    /\ tasks = <<>>
    /\ alerts = <<>>
    /\ cycles = 0
    /\ ticks = 0
    /\ provenance = <<>>

AdaptersNext ==
    \/ cycles = 0 /\ GetCurrentMetrics("p1")
    \/ Gather("p1", services)
    \/ \E commit_ok \in BOOLEAN : ResumeGetCurrentMetrics("p1", commit_ok)

SpecAdapters == AdaptersInit /\ [][AdaptersNext]_vars

\* ------------------------------------------------------------------------
\* Properties
\* ------------------------------------------------------------------------

\* Handlers of get_current_metrics inside a refresh cycle.
RefreshingReads ==
    {p \in Procs : pc[p] = "gather" /\ handler[p] = "get_current_metrics"}

\* Occurrences of snapshot id among the alerts sent and the alert tasks added.
AlertCount(id) ==
    LET all == alerts \o tasks
    IN  Cardinality({k \in DOMAIN all : all[k].snapshot_id = id})

\* Every adapter of the cycle behind row i returned the values of its
\* except branch.
AllDefaults(i) ==
    /\ provenance[i].dicts["ai_benchmarks"] = AiDefaults
    /\ provenance[i].dicts["research_velocity"] = ResearchDefaults
    /\ provenance[i].dicts["github_activity"] = GithubDefaults
    /\ provenance[i].dicts["infrastructure"] = InfraDefaults
    /\ provenance[i].dicts["economic"] = EconDefaults
    /\ provenance[i].dicts["institutional"] = InstDefaults

\* C1: single flight: at most one refresh cycle started by
\* get_current_metrics is in progress at any time, however many callers
\* observe the latest snapshot as stale or absent.
C1_SingleFlight == Cardinality(RefreshingReads) <= 1

\* C2: once the six adapters of a cycle have returned, whatever failed in
\* them, fetch_all_metrics goes on to a snapshot without raising.
C2_CycleNeverRaises ==
    \A p \in Procs :
        DOMAIN results[p] = Adapters => ~ FetchAllRaises(results[p])

\* C3: in every persisted snapshot, data_sources tags an adapter as
\* "fallback" exactly when that adapter substituted a default in the cycle,
\* and as "live" exactly when it did not.
C3_ProvenanceTags ==
    \A i \in DOMAIN db : \A a \in Adapters :
        /\ (db[i].data_sources[a] = "fallback") <=> (a \in provenance[i].substituted)
        /\ (db[i].data_sources[a] = "live") <=> (a \notin provenance[i].substituted)

\* C4: the singularity_index of every persisted snapshot lies in [0, 100].
C4_IndexInRange ==
    \A i \in DOMAIN db :
        0 <= db[i].singularity_index /\ db[i].singularity_index <= Fx(100)

\* C5: round trip: in every persisted snapshot, 0.35 ai_score + 0.20
\* infrastructure_score + 0.25 economic_score + 0.20 institutional_score of
\* the stored sub-scores is the stored singularity_index, to less than one
\* unit of the resolution.
C5_RoundTrip ==
    \A i \in DOMAIN db :
        Abs(35 * db[i].ai_score + 20 * db[i].infrastructure_score
            + 25 * db[i].economic_score + 20 * db[i].institutional_score
            - 100 * db[i].singularity_index) < 100

\* C5 witness: a persisted snapshot whose sub-scores are not the all-default
\* ones: an economic score above the scale and a capped capability bonus.
C5_Witness ==
    \E i \in DOMAIN db :
        /\ db[i].economic_score > Fx(100)
        /\ provenance[i].dicts["research_velocity"].papers_per_day > Fx(100)
        /\ db[i].arc_agi_score < 0

\* C6: a read whose latest snapshot has an age of the threshold or more
\* treats it as stale and starts a recomputation.
C6_BoundaryIsStale ==
    (check.had_latest /\ check.age >= StaleSeconds) => check.refresh

\* C7: alert idempotence: no snapshot ever has more than one alert, sent or
\* waiting to be sent.
C7_AtMostOneAlert == \A i \in DOMAIN db : AlertCount(db[i].id) <= 1

\* C7 witness: a snapshot whose alert was sent is read again (served fresh
\* by get_current_metrics) and still has its one alert.
C7_Witness ==
    /\ response.kind = "metrics"
    /\ check.had_latest /\ ~ check.refresh
    /\ \E k \in DOMAIN alerts : alerts[k].snapshot_id = response.snapshot.id

\* C8 as stated: when all six adapters return their defaults, the index is
\* about 72.4 and the phase is "Pre-AGI Threshold".
C8_Original ==
    \A i \in DOMAIN db :
        AllDefaults(i) =>
            /\ Abs(db[i].singularity_index - Tenths(724)) <= Scale \div 20
            /\ Phase(db[i].singularity_index) = "Pre-AGI Threshold"

\* C8 amended: when all six adapters return the defaults of their except
\* branches, the sub-scores are 49.4, 43.0, 67.5 and 69.1667 (415000/6000),
\* the index is 56.598 and the phase, also in the response of
\* get_current_metrics, is "Rapid Capability Gain".
C8_AllFallback ==
    /\ \A i \in DOMAIN db :
          AllDefaults(i) =>
              /\ db[i].ai_score = Tenths(494)
              /\ db[i].infrastructure_score = Fx(43)
              /\ db[i].economic_score = Tenths(675)
              /\ db[i].institutional_score = 415000
              /\ db[i].singularity_index = 339590
              /\ Abs(db[i].singularity_index - Tenths(566)) <= Scale \div 20
              /\ Phase(db[i].singularity_index) = "Rapid Capability Gain"
    /\ (response.kind = "metrics" /\ AllDefaults(response.snapshot.id)) =>
          response.phase = "Rapid Capability Gain"

\* C8 witness: get_current_metrics has answered with a snapshot of a cycle
\* in which all six adapters returned their defaults.
C8_Witness ==
    /\ response.kind = "metrics"
    /\ response.snapshot.id \in DOMAIN db
    /\ AllDefaults(response.snapshot.id)

\* The benchmark fields of the capability example.
ExampleBenchmarks(i) ==
    /\ db[i].arc_agi_score = Fx(85)
    /\ db[i].swe_bench_score = Fx(48)
    /\ db[i].gpqa_diamond_score = Fx(72)
    /\ db[i].frontier_math_score = Tenths(85)

\* C9: with arc_agi 85, swe_bench 48, gpqa_diamond 72, frontier_math 8.5 and
\* papers_per_day of 100 or more, ai_score is 54.4.
C9_CapabilityExample ==
    \A i \in DOMAIN db :
        (/\ ExampleBenchmarks(i)
         /\ provenance[i].dicts["research_velocity"].papers_per_day >= Fx(100))
        => db[i].ai_score = Tenths(544)

\* C9 witness: such a snapshot with 200 papers a day, above the cap.
C9_Witness ==
    \E i \in DOMAIN db :
        /\ ExampleBenchmarks(i)
        /\ provenance[i].dicts["research_velocity"].papers_per_day = Fx(200)

\* C10: a get_current_metrics call whose query found a snapshot answers
\* with a snapshot, never with a failure.
C10_ReadNeverFails ==
    [][\A p \in Procs :
          (/\ pc[p] = "gather"
           /\ handler[p] = "get_current_metrics"
           /\ latest[p] # 0
           /\ pc'[p] = "idle")
          => response'.kind = "metrics"]_vars

\* A handler's cycle ends in this step with a db.commit() that raised.
WriteFails ==
    /\ \E p \in Procs : pc[p] = "gather" /\ pc'[p] = "idle"
    /\ response' = CommitError

\* C11: persistence failure: a step in which the write of a new snapshot
\* fails leaves the table, and with it the latest snapshot, as it was; and
\* every snapshot a read serves is a row of the table, so that a read after
\* the failure tests the age of the same latest row as before and is never
\* served the snapshot that was not persisted.
C11_FailedWriteDiscarded ==
    [][/\ WriteFails => (db' = db /\ LatestRows' = LatestRows)
       /\ response'.kind = "metrics" =>
             \E i \in DOMAIN db' : db'[i] = response'.snapshot]_vars

\* C11 witness: the write of the first snapshot failed, and the read after
\* it again found no snapshot and started a cycle of its own.
C11_Witness ==
    /\ response = CommitError
    /\ db = <<>>
    /\ cycles = 2
    /\ \E p \in Procs :
          /\ pc[p] = "gather" /\ handler[p] = "get_current_metrics"
          /\ \A q \in Procs \ {p} : pc[q] = "idle"

\* get_current_metrics answers in this step from the row its query found,
\* without a cycle of its own.
FreshRead ==
    /\ pc' = pc
    /\ response'.kind = "metrics"
    /\ <<check, response>>' # <<check, response>>

\* C12: a read that finds the latest snapshot fresh calls no adapter, starts
\* no cycle, adds no task and leaves the table as it is; the snapshot it
\* returns is a row of the table of the greatest timestamp.
C12_FreshReadFrame ==
    [][FreshRead =>
          /\ db' = db
          /\ cycles' = cycles
          /\ results' = results /\ fellBack' = fellBack
          /\ tasks' = tasks /\ alerts' = alerts
          /\ \E i \in DOMAIN db :
                /\ db[i] = response'.snapshot
                /\ \A k \in DOMAIN db : db[k].timestamp <= db[i].timestamp]_vars

\* C12 witness: the table holds an older and a newer snapshot, the newer one
\* inserted by manual_update_metrics (it has an alert), and a read has
\* answered with the newer one.
C12_Witness ==
    /\ response.kind = "metrics"
    /\ check.had_latest /\ ~ check.refresh
    /\ Len(db) = 2
    /\ db[1].timestamp < db[2].timestamp
    /\ response.snapshot = db[2]
    /\ AlertCount(db[2].id) = 1

\* C13: the persisted snapshots form an append-only sequence: every step
\* leaves the rows there are as they are and in their order, adding rows at
\* the end only; and their creation timestamps are strictly increasing, so
\* pairwise distinct.
C13_AppendOnlyIncreasing ==
    [][/\ Len(db') >= Len(db)
       /\ \A i \in DOMAIN db : db'[i] = db[i]
       /\ \A i, j \in DOMAIN db' :
             i < j => db'[i].timestamp < db'[j].timestamp]_vars

\* get_historical_data answers a Pro user in this step.
HistoryRead == response'.kind = "history" /\ response' # response

\* C14: the history read leaves the table (and so the latest snapshot)
\* unchanged, starts no cycle, adds and sends no alert; what it returns are
\* the persisted snapshots of timestamp at or after now - days, each once,
\* by ascending timestamp.
C14_HistoryPureRead ==
    [][HistoryRead =>
          LET sel == {i \in DOMAIN db :
                        db[i].timestamp >= now - response'.days * 86400}
              got == response'.entries
          IN  /\ db' = db
              /\ pc' = pc /\ cycles' = cycles /\ results' = results
              /\ tasks' = tasks /\ alerts' = alerts
              /\ Len(got) = Cardinality(sel)
              /\ \E f \in [DOMAIN got -> sel] :
                    /\ \A k, l \in DOMAIN got : k # l => f[k] # f[l]
                    /\ \A k \in DOMAIN got : got[k] = HistoryEntry(db[f[k]])
              /\ \A k, l \in DOMAIN got :
                    k < l => got[k].timestamp <= got[l].timestamp]_vars

\* C14 witness: of two persisted snapshots the older is out of the window
\* of one day and the newer exactly on its edge; the history returned is
\* the newer one alone.
C14_Witness ==
    /\ response.kind = "history"
    /\ response.days = 1
    /\ Len(db) = 2
    /\ db[1].timestamp < now - 86400
    /\ db[2].timestamp = now - 86400
    /\ Len(response.entries) = 1
    /\ response.entries[1].timestamp = db[2].timestamp

\* Position of a phase label in the order of the bands.
BandRank(label) ==
    CASE label = "Pre-Acceleration" -> 1
      [] label = "Early Acceleration" -> 2
      [] label = "Rapid Capability Gain" -> 3
      [] label = "Pre-AGI Threshold" -> 4
      [] label = "Singularity Zone" -> 5
      [] OTHER -> 0

\* C15: the phase of a response is "Pre-Acceleration" exactly for an index
\* below 20, "Early Acceleration" exactly in [20,40), "Rapid Capability
\* Gain" exactly in [40,60), "Pre-AGI Threshold" exactly in [60,80) and
\* "Singularity Zone" exactly from 80 on, without upper bound; so each index
\* has one band and each edge is of the higher one; and the band never goes
\* down when the index goes up.
C15_PhaseBands ==
    /\ response.kind = "metrics" =>
          LET x == response.snapshot.singularity_index
              phase == response.phase
          IN  /\ (phase = "Pre-Acceleration") <=> (x < Fx(20))
              /\ (phase = "Early Acceleration") <=> (Fx(20) <= x /\ x < Fx(40))
              /\ (phase = "Rapid Capability Gain") <=> (Fx(40) <= x /\ x < Fx(60))
              /\ (phase = "Pre-AGI Threshold") <=> (Fx(60) <= x /\ x < Fx(80))
              /\ (phase = "Singularity Zone") <=> (Fx(80) <= x)
    /\ \A x, y \in PhaseIndices :
          x <= y => (/\ BandRank(Phase(x)) >= 1
                     /\ BandRank(Phase(x)) <= BandRank(Phase(y)))

\* C15 witness: a response for an index exactly on the edge 60, labelled
\* with the band above the edge.
C15_Witness ==
    /\ response.kind = "metrics"
    /\ response.snapshot.singularity_index = Fx(60)
    /\ response.phase = "Pre-AGI Threshold"

\* The credential an adapter reads with os.getenv; research_velocity and
\* economic read none.
CredentialOf(a) ==
    CASE a = "ai_benchmarks" -> "HUGGINGFACE_TOKEN"
      [] a = "github_activity" -> "GITHUB_TOKEN"
      [] a = "infrastructure" -> "EIA_API_KEY"
      [] a = "institutional" -> "NEWS_API_KEY"
      [] OTHER -> "none"

\* C16: an adapter whose credential is not set is in fallback mode: what it
\* returns in a cycle does not depend on the answers of the external
\* services; it is what it returns when none of them can be reached, its
\* defaults.
C16_NoCredentialFallback ==
    \A p \in Procs : \A a \in DOMAIN results[p] :
        (CredentialOf(a) \in Credentials \ env) =>
            results[p][a] = Dict(a, Unreachable, env)

\* C17: a cycle's score calculation (the step in which a handler leaves
\* asyncio.gather, computes the sub-scores and the index and answers) and
\* every insertion of a snapshot happen only when all six adapters of that
\* cycle have returned, in whatever order they did.
C17_NoPartialRead ==
    [][/\ \A p \in Procs :
             (pc[p] = "gather" /\ pc'[p] = "idle") => DOMAIN results[p] = Adapters
       /\ db' # db =>
             \E p \in Procs : pc[p] = "gather" /\ DOMAIN results[p] = Adapters]_vars

\* C17 witness: a snapshot was computed and persisted from a cycle in which
\* some adapters returned live values and others defaults.
C17_Witness ==
    /\ Len(db) = 1
    /\ DOMAIN provenance[1].dicts = Adapters
    /\ provenance[1].substituted = {"ai_benchmarks", "infrastructure", "economic"}
    /\ provenance[1].dicts["github_activity"].total_ai_repos = 100000
    /\ db[1].institutional_score > Fx(70)

\* C18: uniform fallback outcome, for the two adapters the claim cites.
\* Whenever fetch_infrastructure_metrics fell back (its key is missing or
\* its call raised) it returned one and the same dict, its defaults; and
\* whenever fetch_economic_signals returned the defaults of both fields it
\* has a call for (both calls failed, whichever way), its third field is
\* the same default too.
C18_UniformFallback ==
    \A p \in Procs :
        /\ ("infrastructure" \in DOMAIN results[p] \cap fellBack[p]) =>
              results[p]["infrastructure"] = InfraDefaults
        /\ ("economic" \in DOMAIN results[p]
             /\ results[p]["economic"].junior_role_hiring_change = 0 - Fx(35)
             /\ results[p]["economic"].tech_layoffs_index = Fx(85)) =>
              results[p]["economic"] = EconDefaults

\* C19: each of the four sub-scores of every persisted snapshot lies in
\* [0, 100], whatever raw values the adapters returned.
C19_SubScoresInRange ==
    \A i \in DOMAIN db :
        \A x \in {db[i].ai_score, db[i].infrastructure_score,
                  db[i].economic_score, db[i].institutional_score} :
            0 <= x /\ x <= Fx(100)

\* Volumes the bonuses are compared on: papers a day, and repositories.
PaperVolumes == {Fx(x) : x \in {0, 50, 99, 100, 101, 200, 1000}}

RepoVolumes == {0, 50000, 99000, 100000, 101000, 200000, 300000}

\* The capability score before its bonus, from the stored benchmark fields.
StoredBaseAi(row) ==
    (row.arc_agi_score + row.swe_bench_score + row.gpqa_diamond_score
     + (row.frontier_math_score * 2)) \div 5

\* The institutional score before its bonus, from the stored fields.
StoredBaseInst(row) ==
    (Min(row.executive_departures * 10, Fx(100))
     + Min(row.emergency_legislation * 25, Fx(100))
     + Min((row.vc_funding_index \div 200) * 100, Fx(100))) \div 3

\* C20: in every persisted snapshot the bonus inside ai_score and the bonus
\* inside institutional_score are at most 10; from 100 papers a day on, and
\* from 100000 repositories on, the score is the one with a bonus of
\* exactly 10, whatever the volume; and each bonus is at most 10 and does
\* not go down when its volume goes up.
C20_BoundedBonus ==
    /\ \A i \in DOMAIN db :
          LET papers == provenance[i].dicts["research_velocity"].papers_per_day
              repos  == provenance[i].dicts["github_activity"].total_ai_repos
          IN  /\ db[i].ai_score - StoredBaseAi(db[i]) <= Fx(10)
              /\ db[i].institutional_score - StoredBaseInst(db[i]) <= Fx(10)
              /\ papers >= Fx(100) =>
                    db[i].ai_score = Min(StoredBaseAi(db[i]) + Fx(10), Fx(100))
              /\ repos >= 100000 =>
                    db[i].institutional_score =
                        Min(StoredBaseInst(db[i]) + Fx(10), Fx(100))
    /\ \A x, y \in PaperVolumes :
          /\ research_factor(x) <= Fx(10)
          /\ x <= y => research_factor(x) <= research_factor(y)
    /\ \A x, y \in RepoVolumes :
          /\ github_factor(x) <= Fx(10)
          /\ x <= y => github_factor(x) <= github_factor(y)

\* C20 witness: a persisted snapshot of a cycle with 200 papers a day and
\* 200000 repositories, both above the volume at which the bonus is 10.
C20_Witness ==
    \E i \in DOMAIN db :
        /\ provenance[i].dicts["research_velocity"].papers_per_day = Fx(200)
        /\ provenance[i].dicts["github_activity"].total_ai_repos = 200000
        /\ db[i].ai_score - StoredBaseAi(db[i]) = Fx(10)
        /\ db[i].institutional_score - StoredBaseInst(db[i]) = Fx(10)

\* C21: a cycle of fetch_all_metrics, started at time 0, has all six
\* adapters back and its snapshot created by the time of one request
\* timeout, 30 time units.
C21_CycleWithinTimeout ==
    /\ \A p \in Procs : DOMAIN results[p] = Adapters => now <= RequestTimeout
    /\ \A i \in DOMAIN db : db[i].timestamp <= RequestTimeout

\* C22: every persisted snapshot of index 60 or more has exactly one alert
\* (sent, or added as a background task), whichever endpoint produced it,
\* and every persisted snapshot of index below 60 has none.
C22_AlertForEverySnapshot ==
    \A i \in DOMAIN db :
        AlertCount(db[i].id) =
            IF db[i].singularity_index >= Fx(AlertThreshold) THEN 1 ELSE 0

\* get_current_metrics starts a cycle of its own in this step.
RefreshStarts ==
    \E p \in Procs :
        pc[p] = "idle" /\ pc'[p] = "gather" /\ handler'[p] = "get_current_metrics"

\* C23: while the snapshot persisted last is younger than the threshold,
\* no read starts a cycle, and every read answers with exactly that
\* snapshot.
C23_PersistedIsLatest ==
    [][(db # <<>> /\ now - db[Len(db)].timestamp < StaleSeconds) =>
          /\ ~ RefreshStarts
          /\ FreshRead => response'.snapshot = db[Len(db)]]_vars

\* The raw fields a snapshot stores.
RawFields(row) ==
    <<row.arc_agi_score, row.swe_bench_score, row.gpqa_diamond_score,
      row.frontier_math_score, row.logical_qubits, row.datacenter_power_pct,
      row.gpu_production_index, row.junior_role_hiring_change,
      row.ai_revenue_per_employee, row.tech_layoffs_index,
      row.executive_departures, row.emergency_legislation, row.vc_funding_index>>

\* The four sub-scores a snapshot stores.
SubScores(row) ==
    <<row.ai_score, row.infrastructure_score, row.economic_score,
      row.institutional_score>>

\* The snapshot of the cycle behind row i, had arXiv and GitHub answered
\* research and github instead.
SnapshotWith(i, research, github) ==
    MakeSnapshot([provenance[i].dicts EXCEPT
                     !["research_velocity"] = fetch_research_velocity(research),
                     !["github_activity"] = fetch_github_activity(github, env)])

\* C24: the stored sub-scores of a persisted snapshot are determined by its
\* stored raw fields: a cycle that stores the same raw fields stores the
\* same four sub-scores.
C24_Recomputable ==
    \A i \in DOMAIN db :
        \A research \in ArxivAnswers :
            \A github \in {g \in GithubCalcAnswers : g.body # "null"} :
                RawFields(SnapshotWith(i, research, github)) = RawFields(db[i])
                => SubScores(SnapshotWith(i, research, github)) = SubScores(db[i])

\* get_current_metrics answers in this step with the snapshot of the cycle
\* it ran itself.
RefreshAnswers ==
    /\ \E p \in Procs :
          pc[p] = "gather" /\ handler[p] = "get_current_metrics" /\ pc'[p] = "idle"
    /\ response'.kind = "metrics"

\* C25: a snapshot get_current_metrics answers with from the table has, at
\* the staleness test, an age of at most 86400 s; and a snapshot it answers
\* with after a cycle of its own is the one that cycle has just created,
\* of age 0.
C25_NeverOlderThanThreshold ==
    [][/\ FreshRead =>
             /\ now - response'.snapshot.timestamp <= StaleSeconds
             /\ check'.age = now - response'.snapshot.timestamp
             /\ ~ check'.refresh
       /\ RefreshAnswers =>
             /\ response'.snapshot.timestamp = now
             /\ Len(db') = Len(db) + 1
             /\ response'.snapshot = db'[Len(db')]]_vars

\* C25 witness: a read has answered with a snapshot from the table whose
\* age at the staleness test was exactly the threshold.
C25_Witness ==
    /\ response.kind = "metrics"
    /\ check.had_latest /\ ~ check.refresh
    /\ check.age = StaleSeconds
    /\ now - response.snapshot.timestamp = StaleSeconds

\* The except clause of fetch_ai_benchmarks runs against services s.
AiExcept(s) ==
    Raises(s.arc) \/ Raises(s.swe) \/ ("HUGGINGFACE_TOKEN" \in env /\ CallRaises(s.hf))

\* The except clause of fetch_institutional_signals runs against services s.
InstExcept(s) ==
    ("NEWS_API_KEY" \in env /\ CallRaises(s.news)) \/ CallRaises(s.congress)

\* C26: in a cycle whose adapters have returned: an adapter in which a call
\* or its parsing raised returns the default of every field it owns, also
\* for a field an earlier call had answered (ARC-AGI 90.0 is dropped when
\* the SWE-bench or Hugging Face call raises); a non-200 status without an
\* exception puts a default in the field of that call alone and leaves the
\* fields of the adapter's other calls as they are.
C26_ExceptionDiscards ==
    \A p \in Procs :
        DOMAIN results[p] = Adapters =>
            LET r == results[p]
                s == services
            IN  /\ AiExcept(s) =>
                      r["ai_benchmarks"] =
                          [arc_agi |-> Fx(85), swe_bench |-> Fx(48),
                           gpqa_diamond |-> Fx(72), frontier_math |-> Tenths(85)]
                /\ ~ AiExcept(s) =>
                      /\ r["ai_benchmarks"].arc_agi =
                            IF Live(s.arc) THEN Tenths(s.arc.v) ELSE Fx(85)
                      /\ r["ai_benchmarks"].swe_bench =
                            IF Live(s.swe) THEN Tenths(s.swe.v) ELSE Fx(48)
                /\ Raises(s.arxiv) =>
                      r["research_velocity"] =
                          [papers_per_day |-> Fx(50), total_papers_30d |-> 1500]
                /\ Raises(s.gh) => r["github_activity"].total_ai_repos = 50000
                /\ ("EIA_API_KEY" \in env /\ CallRaises(s.eia)) =>
                      r["infrastructure"] =
                          [datacenter_power_pct |-> Tenths(21),
                           logical_qubits |-> Fx(12), gpu_production_index |-> Fx(75)]
                /\ InstExcept(s) =>
                      r["institutional"] =
                          [executive_departures |-> Fx(7),
                           emergency_legislation |-> Fx(2),
                           vc_funding_index |-> Fx(145)]
                /\ ~ InstExcept(s) =>
                      /\ r["institutional"].emergency_legislation = Fx(2)
                      /\ r["institutional"].vc_funding_index = Fx(148)

\* C26 witness: ARC-AGI answered 90.0 and the SWE-bench call raised; the
\* adapter has returned, with the default 85.0 for arc_agi.
C26_Witness ==
    /\ DOMAIN results["p1"] = Adapters
    /\ Live(services.arc) /\ services.arc.v = 900
    /\ CallRaises(services.swe)
    /\ results["p1"]["ai_benchmarks"].arc_agi = Fx(85)

====
